---- MODULE Spec2Model ----
(***************************************************************************)
(* rhel8-kickstart-setup.py: mount a RHEL-8 ISO, copy the AppStream and    *)
(* BaseOS variants and the boot files into a kickstart tree, rewrite the   *)
(* two treeinfo files, fix permissions.                                    *)
(*                                                                         *)
(* A path is a sequence of names.  A filesystem is a set of nodes          *)
(* [p |-> path, k |-> "f" | "d", o |-> path of the image file the bytes    *)
(* come from].  The image is seen relative to the mount point, the         *)
(* destination relative to DEST_DIR (<<>> is DEST_DIR itself).             *)
(***************************************************************************)
EXTENDS Integers, Sequences, FiniteSets, TLC

\* ------------------------------------------------------------ bounds
\* Command lines of 0..MaxArgs positional arguments are explored.
MaxArgs == 3
\* Treeinfo documents carry 0..MaxImages sections named images-<platform>.
MaxImages == 2

\* ------------------------------------------------------------ paths
Last(s) == s[Len(s)]

Parent(p) == SubSeq(p, 1, Len(p) - 1)

IsPrefix(a, b) == Len(a) <= Len(b) /\ SubSeq(b, 1, Len(a)) = a

\* b relative to its prefix a
Rel(a, b) == SubSeq(b, Len(a) + 1, Len(b))

Prefixes(p) == {SubSeq(p, 1, i) : i \in 0..Len(p)}

Exists(fs, p) == \E n \in fs : n.p = p

IsDir(fs, p) == \E n \in fs : n.p = p /\ n.k = "d"

IsFile(fs, p) == \E n \in fs : n.p = p /\ n.k = "f"

\* os.listdir(dir): the names of the direct children
ListDir(fs, dir) == {Last(n.p) : n \in {m \in fs : Len(m.p) = Len(dir) + 1 /\ IsPrefix(dir, m.p)}}

File(p) == [p |-> p, k |-> "f", o |-> p]

Dir(p) == [p |-> p, k |-> "d", o |-> p]

\* a directory the program creates itself (no bytes of the image)
NewDir(p) == [p |-> p, k |-> "d", o |-> <<>>]

\* os.makedirs(p): p and every missing ancestor become directories
MakeDirs(fs, p) == fs \cup {NewDir(q) : q \in {r \in Prefixes(p) : ~Exists(fs, r)}}

\* ------------------------------------------------------------ copies
\* copytree's ignore callback: the names to skip in directory dir
filt(dir, files) == {"TRANS.TBL"}

\* shutil.copytree calls ignore(dir, names) in every directory it visits
\* and skips the names returned, files and directories alike.
Skipped(iso, src, rel) ==
    \E i \in 1..Len(rel) :
        LET dir == src \o SubSeq(rel, 1, i - 1)
        IN  rel[i] \in filt(dir, ListDir(iso, dir))

\* copytree(src, dst): src of the image into dst of the destination tree.
\* shutil.copytree lists src, creates dst with os.makedirs (which raises
\* when dst exists) and copies what the ignore callback leaves.
copytree(iso, dfs, src, dst) ==
    IF ~IsDir(iso, src) \/ Exists(dfs, dst)
    THEN [ok |-> FALSE, fs |-> dfs]
    ELSE [ok |-> TRUE,
          fs |-> MakeDirs(dfs, Parent(dst)) \cup
                 {[p |-> dst \o Rel(src, n.p), k |-> n.k, o |-> n.p] :
                    n \in {m \in iso : IsPrefix(src, m.p)
                                        /\ ~Skipped(iso, src, Rel(src, m.p))}}]

\* shutil.copy(src, dst): into dst when dst is a directory, else onto dst.
\* Raises when src is no regular file, when the target is a directory or
\* when the target's directory is missing; replaces an existing file.
ShutilCopy(iso, dfs, src, dst) ==
    LET target == IF IsDir(dfs, dst) THEN dst \o <<Last(src)>> ELSE dst
    IN  IF ~IsFile(iso, src) \/ IsDir(dfs, target) \/ ~IsDir(dfs, Parent(target))
        THEN [ok |-> FALSE, fs |-> dfs]
        ELSE [ok |-> TRUE,
              fs |-> {n \in dfs : n.p # target}
                     \cup {[p |-> target, k |-> "f", o |-> src]}]

\* ------------------------------------------------------------ treeinfo
\* A treeinfo file is a function from section names to functions from
\* option names to values; NoFile has no section (a missing or empty file).
NoFile == [s \in {} |-> [k \in {} |-> ""]]

MixedCaseKey == "EFI/BOOT/BOOTX64.EFI"

\* str.lower() on the strings it is applied to here
LowerTable ==
    [s \in {"AppStream", "BaseOS", MixedCaseKey} |->
        CASE s = "AppStream" -> "appstream"
          [] s = "BaseOS" -> "baseos"
          [] s = MixedCaseKey -> "efi/boot/bootx64.efi"]

lower(s) == IF s \in DOMAIN LowerTable THEN LowerTable[s] ELSE s

\* RawConfigParser.optionxform is left at its default, str.lower
optionxform(option) == lower(option)

\* RawConfigParser.read: a missing file is skipped silently; option names
\* go through optionxform.  The parser is [err, d]: err once a call raised.
TiRead(file) ==
    [err |-> FALSE,
     d |-> [s \in DOMAIN file |->
             [k \in {optionxform(j) : j \in DOMAIN file[s]} |->
                 file[s][CHOOSE j \in DOMAIN file[s] : optionxform(j) = k]]]]

\* RawConfigParser.set: NoSectionError when the section is missing
TiSet(ti, section, option, value) ==
    IF ti.err THEN ti
    ELSE IF section \notin DOMAIN ti.d THEN [ti EXCEPT !.err = TRUE]
    ELSE [ti EXCEPT !.d[section] = (optionxform(option) :> value) @@ @]

\* RawConfigParser.get: NoSectionError, NoOptionError
TiHas(ti, section, option) ==
    /\ ~ti.err
    /\ section \in DOMAIN ti.d
    /\ optionxform(option) \in DOMAIN ti.d[section]

\* RawConfigParser.remove_section: no error when the section is missing
TiRemoveSection(ti, section) ==
    IF ti.err THEN ti
    ELSE [ti EXCEPT !.d = [s \in DOMAIN ti.d \ {section} |-> ti.d[s]]]

\* str.startswith over the section names of the model
Tails == {"", "x86_64", "xen", "aarch64", "ppc64le", "BaseOS", "AppStream"}

\* mutation: the images-* sections are never recognised
StartsWithNever(s, prefix) == FALSE

StartsWith(s, prefix) == \E t \in Tails : s = prefix \o t

tweak_paths(ti, variant, platforms) ==
    LET t1 == TiSet(ti, "general", "variants", variant)
        t2 == TiSet(t1, "general", "variant", variant)
        t3 == TiSet(t2, "general", "repository", ".")
        t4 == TiSet(t3, "general", "packagedir", "Packages")
        t5 == TiSet(t4, "tree", "variants", variant)
        t6 == TiSet(t5, "variant-" \o variant, "packages", "Packages")
        t7 == TiSet(t6, "variant-" \o variant, "repository", ".")
        t8 == IF ~platforms \/ t7.err THEN t7
              ELSE IF ~TiHas(t7, "general", "arch") THEN [t7 EXCEPT !.err = TRUE]
              ELSE LET arch == t7.d["general"][optionxform("arch")]
                   IN  TiSet(TiSet(t7, "general", "platforms", arch),
                             "tree", "platforms", arch)
    IN  TiRemoveSection(t8, "media")

\* open(file_path, "w"); ti.write(f): reached only when nothing raised
TiWrite(ti) == ti.d

tweak_baseos_treeinfo(file) ==
    LET ti == TiRead(file)
        t1 == tweak_paths(ti, "BaseOS", FALSE)
        t2 == TiRemoveSection(t1, "variant-AppStream")
    IN  [ok |-> ~t2.err, file |-> IF t2.err THEN file ELSE TiWrite(t2)]

RECURSIVE RemoveAll(_, _)
RemoveAll(ti, sections) ==
    IF sections = <<>> THEN ti
    ELSE RemoveAll(TiRemoveSection(ti, Head(sections)), Tail(sections))

\* a set as a sequence, in some order
RECURSIVE SeqOf(_)
SeqOf(S) ==
    IF S = {} THEN <<>>
    ELSE LET x == CHOOSE y \in S : TRUE IN <<x>> \o SeqOf(S \ {x})

tweak_appstream_treeinfo(file) ==
    LET ti == TiRead(file)
        t1 == tweak_paths(ti, "AppStream", TRUE)
        sections_to_remove ==
            <<"variant-BaseOS", "checksums", "stage2">> \o
            SeqOf({s \in DOMAIN t1.d : StartsWith(s, "images-")})
        t2 == RemoveAll(t1, sections_to_remove)
    IN  [ok |-> ~t2.err, file |-> IF t2.err THEN file ELSE TiWrite(t2)]

\* ------------------------------------------------------------ inputs
\* The images explored: the tree every RHEL-8 image has, plus any of the
\* optional parts below, plus images that lack a required entry.
BaseLayout ==
    {Dir(<<"AppStream">>), Dir(<<"AppStream", "Packages">>),
     File(<<"AppStream", "Packages", "a.rpm">>),
     Dir(<<"BaseOS">>), Dir(<<"BaseOS", "Packages">>),
     File(<<"BaseOS", "Packages", "b.rpm">>),
     File(<<".treeinfo">>), File(<<".discinfo">>),
     File(<<"extra_files.json">>), File(<<"README">>)}

OptionalParts ==
    {{File(<<"media.repo">>)},
     {Dir(<<"isolinux">>), File(<<"isolinux", "isolinux.cfg">>),
      File(<<"isolinux", "TRANS.TBL">>)},
     {File(<<"TRANS.TBL">>), File(<<"AppStream", "TRANS.TBL">>),
      File(<<"AppStream", "Packages", "TRANS.TBL">>),
      File(<<"BaseOS", "TRANS.TBL">>)},
     {Dir(<<"AppStream", "isolinux">>)},
     {File(<<"discinfo">>)},
     {Dir(<<"docs">>), File(<<"docs", "GPL">>), File(<<"GPL">>)}}

Layouts ==
    {BaseLayout \cup UNION parts : parts \in SUBSET OptionalParts}

DeficientLayouts ==
    {BaseLayout \ {Dir(<<"AppStream">>), Dir(<<"AppStream", "Packages">>),
                   File(<<"AppStream", "Packages", "a.rpm">>)},
     BaseLayout \ {File(<<".discinfo">>)},
     BaseLayout \ {File(<<"extra_files.json">>)},
     BaseLayout \cup {Dir(<<"isolinux">>), Dir(<<"BaseOS", "isolinux">>)}}

\* extra_files.json: ok is FALSE for a document json.load or the
\* data[*]["file"] lookups reject; files are the names it lists, as paths.
Manifests ==
    {[ok |-> TRUE, files |-> <<>>],
     [ok |-> TRUE, files |-> <<(<<"README">>)>>],
     [ok |-> TRUE, files |-> <<(<<"README">>), (<<"media.repo">>)>>],
     [ok |-> TRUE, files |-> <<(<<"docs", "GPL">>)>>],
     [ok |-> FALSE, files |-> <<>>]}

ImagePlatforms == <<"x86_64", "xen", "aarch64", "ppc64le">>

BaseSections ==
    {"general", "tree", "variant-AppStream", "variant-BaseOS", "media",
     "checksums", "stage2"}

SectionContent(s, hasArch, mixed) ==
    CASE s = "general" ->
            [k \in {"arch", "name", "packagedir", "platforms", "repository",
                    "variant", "variants"} \ (IF hasArch THEN {} ELSE {"arch"}) |->
                CASE k = "arch" -> "x86_64"
                  [] k = "name" -> "Red Hat Enterprise Linux 8"
                  [] k = "packagedir" -> "AppStream/Packages"
                  [] k = "platforms" -> "x86_64,xen"
                  [] k = "repository" -> "AppStream"
                  [] k = "variant" -> "AppStream"
                  [] k = "variants" -> "AppStream,BaseOS"]
      [] s = "tree" ->
            [k \in {"arch", "platforms", "variants"} |->
                CASE k = "arch" -> "x86_64"
                  [] k = "platforms" -> "x86_64,xen"
                  [] k = "variants" -> "AppStream,BaseOS"]
      [] s = "variant-AppStream" ->
            [k \in {"id", "packages", "repository"} |->
                CASE k = "id" -> "AppStream"
                  [] k = "packages" -> "AppStream/Packages"
                  [] k = "repository" -> "AppStream"]
      [] s = "variant-BaseOS" ->
            [k \in {"id", "packages", "repository"} |->
                CASE k = "id" -> "BaseOS"
                  [] k = "packages" -> "BaseOS/Packages"
                  [] k = "repository" -> "BaseOS"]
      [] s = "media" -> [k \in {"discnum"} |-> "1"]
      [] s = "checksums" ->
            [k \in {"images/efiboot.img"} \cup (IF mixed THEN {MixedCaseKey} ELSE {}) |->
                "sha256:00"]
      [] s = "stage2" -> [k \in {"mainimage"} |-> "images/install.img"]
      [] s = "header" -> [k \in {"version"} |-> "1.2"]
      [] OTHER -> [k \in {"kernel"} |-> "images/pxeboot/vmlinuz"]

MkDoc(present, nimg, hasArch, mixed) ==
    [s \in present \cup {"header"}
            \cup {"images-" \o ImagePlatforms[i] : i \in 1..nimg} |->
        SectionContent(s, hasArch, mixed)]

AllDocs ==
    {MkDoc(present, nimg, hasArch, mixed) :
        present \in SUBSET BaseSections, nimg \in 0..MaxImages,
        hasArch \in BOOLEAN, mixed \in BOOLEAN}

FullDoc == MkDoc(BaseSections, MaxImages, TRUE, FALSE)

SampleDocs ==
    {FullDoc,
     MkDoc(BaseSections \ {"variant-AppStream"}, MaxImages, TRUE, FALSE),
     MkDoc(BaseSections \ {"general"}, MaxImages, TRUE, FALSE),
     MkDoc(BaseSections, MaxImages, FALSE, FALSE)}

\* ------------------------------------------------------------ state
VARIABLES
    pc,          \* where main() is
    nargs,       \* len(args)
    status,      \* the process's exit status (0 unless sys.exit or a raise set it)
    iso,         \* the image's tree
    manifest,    \* the image's extra_files.json
    isoTreeinfo, \* the image's .treeinfo
    dest0,       \* the tree at DEST_DIR before the run
    dest,        \* the tree at DEST_DIR
    written,     \* the treeinfo files the editor has written back
    tmpdir,      \* the mount point: "none", "exists", "removed"
    mounted,     \* the image is mounted on the mount point
    extra_files, \* main's extra_files list
    variant,     \* index of the variant loop of main
    todo,        \* copy_boot_files: the children still to copy
    exc,         \* an exception raised in the with-body is pending
    timeout,     \* mount_iso's loop variable
    log          \* what the program did to the outside, in order

vars ==
    <<pc, nargs, status, iso, manifest, isoTreeinfo, dest0, dest, written, tmpdir,
      mounted, extra_files, variant, todo, exc, timeout, log>>

\* range(5) of mount_iso's retry loop
Retries == 5

Variants == <<"AppStream", "BaseOS">>

\* exit codes the external commands return
ExitCodes == {0, 32}

\* an entry of the log: the operation, its loop variable, and for an
\* external command the return code of the process
Ev(op, n, rc) == [op |-> op, n |-> n, rc |-> rc]

Did(op) == \E i \in 1..Len(log) : log[i].op = op

Count(op) == Cardinality({i \in 1..Len(log) : log[i].op = op})

\* what the program sees under the mount point
View == IF mounted THEN iso ELSE {}

VariantDir(v) == <<lower(v), "kickstart">>

\* a destination that exists before the run
OldDest == {NewDir(<<>>), [p |-> <<"old">>, k |-> "f", o |-> <<>>]}

InitWith(configs) ==
    /\ pc = "parse"
    /\ status = 0
    /\ \E c \in configs :
          /\ nargs = c[1]
          /\ dest0 = c[2]
          /\ dest = c[2]
          /\ iso = c[3]
          /\ manifest = c[4]
          /\ isoTreeinfo = c[5]
    /\ written = [v \in {"AppStream", "BaseOS"} |-> NoFile]
    /\ tmpdir = "none"
    /\ mounted = FALSE
    /\ extra_files = <<>>
    /\ variant = 1
    /\ todo = {}
    /\ exc = FALSE
    /\ timeout = 0
    /\ log = <<>>

\* Any command line and destination with the plain image; every image
\* layout and manifest with a well-formed command line.
Init ==
    InitWith(((0..MaxArgs) \X {{}, OldDest} \X {BaseLayout}
                  \X {[ok |-> TRUE, files |-> <<>>]} \X {FullDoc})
             \cup ({2} \X {{}} \X Layouts \X Manifests \X {FullDoc})
             \cup ({2} \X {{}} \X DeficientLayouts
                  \X {[ok |-> TRUE, files |-> <<>>]} \X {FullDoc})
             \cup ({2} \X {{}} \X {BaseLayout}
                  \X {[ok |-> TRUE, files |-> <<>>]} \X SampleDocs))

\* Every treeinfo document with the plain image.
InitTreeinfo ==
    InitWith({2} \X {{}} \X {BaseLayout}
                 \X {[ok |-> TRUE, files |-> <<>>]} \X AllDocs)

\* ------------------------------------------------------------ run
\* run(cmd, can_fail) on a process that ended with returncode: "True",
\* "False", or "exit" for sys.exit(1).
\* mutation: a fatal failure returns False instead of exiting
RunAlwaysReturns(returncode, can_fail) ==
    IF returncode = 0 THEN "True" ELSE "False"

run(returncode, can_fail) ==
    IF returncode = 0 THEN "True"
    ELSE IF can_fail THEN "False"
    ELSE "exit"

\* sys.exit(code), parser.error (exit 2) and an uncaught exception (exit 1)
\* end the process.
Exit(code) == pc' = "done" /\ status' = code

\* mutation: no try/finally around the yield
RaiseSkipsFinally == pc' = "done" /\ status' = 1 /\ exc' = TRUE

\* the with-body raised: control goes to mount_iso's finally clause; the
\* process's status stays as it is until the exception leaves main
Raise == pc' = "umount" /\ exc' = TRUE /\ status' = status

\* ------------------------------------------------------------ main
ParseArgs ==
    /\ pc = "parse"
    /\ IF nargs # 2 THEN Exit(2) ELSE pc' = "check_dest" /\ UNCHANGED status
    /\ UNCHANGED <<nargs, iso, manifest, isoTreeinfo, dest0, dest, written, tmpdir,
                   mounted, extra_files, variant, todo, exc, timeout, log>>

\* mutation: no os.path.exists test
CheckDestOverwrites ==
    /\ pc = "check_dest"
    /\ pc' = "mkdtemp"
    /\ UNCHANGED <<nargs, status, iso, manifest, isoTreeinfo, dest0, dest, written,
                   tmpdir, mounted, extra_files, variant, todo, exc, timeout, log>>

CheckDest ==
    /\ pc = "check_dest"
    /\ IF Exists(dest, <<>>) THEN Exit(2) ELSE pc' = "mkdtemp" /\ UNCHANGED status
    /\ UNCHANGED <<nargs, iso, manifest, isoTreeinfo, dest0, dest, written, tmpdir,
                   mounted, extra_files, variant, todo, exc, timeout, log>>

\* ------------------------------------------------------------ mount_iso
Mkdtemp ==
    /\ pc = "mkdtemp"
    /\ tmpdir' = "exists"
    /\ log' = Append(log, Ev("mkdtemp", 0, 0))
    /\ pc' = "mount"
    /\ UNCHANGED <<nargs, status, iso, manifest, isoTreeinfo, dest0, dest, written,
                   mounted, extra_files, variant, todo, exc, timeout>>

\* run(["mount", ...]) stands before the try: its sys.exit skips the finally
Mount ==
    /\ pc = "mount"
    /\ \E returncode \in ExitCodes :
          /\ log' = Append(log, Ev("mount", 0, returncode))
          /\ mounted' = (returncode = 0)
          /\ IF run(returncode, FALSE) = "exit"
             THEN Exit(1)
             ELSE pc' = "manifest" /\ UNCHANGED status
    /\ UNCHANGED <<nargs, iso, manifest, isoTreeinfo, dest0, dest, written, tmpdir,
                   extra_files, variant, todo, exc, timeout>>

\* ------------------------------------------------------------ with-body
\* Each step of the body can also fail on an I/O error of the machine
\* (ioerr); whatever raises goes to the finally clause of mount_iso.

\* open + json.load + the list comprehension + insert(0, ...)
ReadManifest ==
    /\ pc = "manifest"
    /\ log' = Append(log, Ev("manifest", 0, 0))
    /\ \E ioerr \in BOOLEAN :
          IF ioerr \/ ~IsFile(View, <<"extra_files.json">>) \/ ~manifest.ok
          THEN Raise /\ UNCHANGED extra_files
          ELSE /\ extra_files' = <<(<<"extra_files.json">>)>> \o manifest.files
               /\ pc' = "variant_tree"
               /\ UNCHANGED <<exc, status>>
    /\ UNCHANGED <<nargs, iso, manifest, isoTreeinfo, dest0, dest, written,
                   tmpdir, mounted, variant, todo, timeout>>

\* copytree(join(mount_dir, variant), variant_dir)
CopyVariantTree ==
    /\ pc = "variant_tree"
    /\ log' = Append(log, Ev("copytree", variant, 0))
    /\ \E ioerr \in BOOLEAN :
          LET r == copytree(View, dest, <<Variants[variant]>>,
                            VariantDir(Variants[variant]))
          IN  IF ioerr \/ ~r.ok
              THEN Raise /\ UNCHANGED dest
              ELSE dest' = r.fs /\ pc' = "variant_meta" /\ UNCHANGED <<exc, status>>
    /\ UNCHANGED <<nargs, iso, manifest, isoTreeinfo, dest0, written, tmpdir,
                   mounted, extra_files, variant, todo, timeout>>

\* a sequence of shutil.copy calls; the first that raises ends it, what
\* was copied before stays
RECURSIVE CopyEach(_, _, _)
CopyEach(view, dfs, jobs) ==
    IF jobs = <<>> THEN [ok |-> TRUE, fs |-> dfs]
    ELSE LET r == ShutilCopy(view, dfs, Head(jobs)[1], Head(jobs)[2])
         IN  IF ~r.ok THEN r ELSE CopyEach(view, r.fs, Tail(jobs))

\* for fname in ("discinfo", "treeinfo"): shutil.copy("." + fname, fname)
CopyVariantMeta ==
    /\ pc = "variant_meta"
    /\ log' = Append(log, Ev("copy", variant, 0))
    /\ \E ioerr \in BOOLEAN :
          LET variant_dir == VariantDir(Variants[variant])
              r == CopyEach(View, dest,
                            <<(<<(<<"." \o "discinfo">>), variant_dir \o <<"discinfo">> >>),
                              (<<(<<"." \o "treeinfo">>), variant_dir \o <<"treeinfo">> >>)>>)
          IN  IF ioerr THEN Raise /\ UNCHANGED dest
              ELSE /\ dest' = r.fs
                   /\ IF r.ok THEN pc' = "variant_extra" /\ UNCHANGED <<exc, status>>
                      ELSE Raise
    /\ UNCHANGED <<nargs, iso, manifest, isoTreeinfo, dest0, written, tmpdir,
                   mounted, extra_files, variant, todo, timeout>>

\* for fname in extra_files: shutil.copy(join(mount_dir, fname), variant_dir);
\* then the next variant, or copy_boot_files
CopyVariantExtra ==
    /\ pc = "variant_extra"
    /\ log' = Append(log, Ev("copy", variant, 0))
    /\ \E ioerr \in BOOLEAN :
          LET variant_dir == VariantDir(Variants[variant])
              r == CopyEach(View, dest,
                            [i \in 1..Len(extra_files) |-> <<extra_files[i], variant_dir>>])
          IN  IF ioerr THEN Raise /\ UNCHANGED <<dest, variant>>
              ELSE /\ dest' = r.fs
                   /\ IF ~r.ok THEN Raise /\ UNCHANGED variant
                      ELSE IF variant < Len(Variants)
                      THEN /\ variant' = variant + 1
                           /\ pc' = "variant_tree"
                           /\ UNCHANGED <<exc, status>>
                      ELSE pc' = "sweep_begin" /\ UNCHANGED <<variant, exc, status>>
    /\ UNCHANGED <<nargs, iso, manifest, isoTreeinfo, dest0, written, tmpdir,
                   mounted, extra_files, todo, timeout>>

\* mutation: media.repo missing from IGNORE
IgnoreWithoutMediaRepo(ignore) ==
    {"AppStream", "BaseOS", ".treeinfo", ".discinfo"}
    \cup {ignore[i][1] : i \in {j \in 1..Len(ignore) : Len(ignore[j]) = 1}}

\* copy_boot_files: IGNORE, extended by the ignore argument.  A name of
\* the listing is a string; it equals a manifest entry only when the
\* entry is that one name.
IGNORE(ignore) ==
    {"AppStream", "BaseOS", ".treeinfo", ".discinfo", "media.repo"}
    \cup {ignore[i][1] : i \in {j \in 1..Len(ignore) : Len(ignore[j]) = 1}}

\* os.listdir(srcdir), less the names the loop skips with continue
CopyBootFilesBegin ==
    /\ pc = "sweep_begin"
    /\ todo' = {fname \in ListDir(View, <<>>) : fname \notin IGNORE(extra_files)}
    /\ pc' = IF todo' = {} THEN "umount" ELSE "sweep"
    /\ UNCHANGED <<nargs, status, iso, manifest, isoTreeinfo, dest0, dest, written,
                   tmpdir, mounted, extra_files, variant, exc, timeout, log>>

\* one round of the loop of copy_boot_files; os.listdir gives the names
\* in no particular order
CopyBootFile ==
    /\ pc = "sweep"
    /\ log' = Append(log, Ev("sweep", 0, 0))
    /\ \E fname \in todo, ioerr \in BOOLEAN :
          LET destdir == <<"baseos", "kickstart">>
              r == IF IsDir(View, <<fname>>)
                   THEN copytree(View, dest, <<fname>>, destdir \o <<fname>>)
                   ELSE ShutilCopy(View, dest, <<fname>>, destdir)
          IN  IF ioerr \/ ~r.ok
              THEN Raise /\ UNCHANGED <<dest, todo>>
              ELSE /\ dest' = r.fs
                   /\ todo' = todo \ {fname}
                   /\ pc' = IF todo' = {} THEN "umount" ELSE "sweep"
                   /\ UNCHANGED <<exc, status>>
    /\ UNCHANGED <<nargs, iso, manifest, isoTreeinfo, dest0, written, tmpdir,
                   mounted, extra_files, variant, timeout>>

\* ------------------------------------------------------------ finally
\* if run(["umount", mount_point], can_fail=True): break
\* umount can only succeed on a mounted directory.
Umount ==
    /\ pc = "umount"
    /\ \E returncode \in {c \in ExitCodes : c = 0 => mounted} :
          LET r == run(returncode, TRUE)
          IN  /\ log' = Append(log, Ev("umount", timeout, returncode))
              /\ mounted' = (mounted /\ returncode # 0)
              /\ IF r = "True" THEN pc' = "rmdir" /\ UNCHANGED status
                 ELSE IF r = "False" THEN pc' = "sleep" /\ UNCHANGED status
                 ELSE Exit(1)
    /\ UNCHANGED <<nargs, iso, manifest, isoTreeinfo, dest0, dest, written, tmpdir,
                   extra_files, variant, todo, exc, timeout>>

\* mutation: time.sleep(timeout + 1)
SleepOneMore ==
    /\ pc = "sleep"
    /\ log' = Append(log, Ev("sleep", timeout + 1, 0))
    /\ timeout' = timeout + 1
    /\ pc' = IF timeout + 1 < Retries THEN "umount" ELSE "rmdir"
    /\ UNCHANGED <<nargs, status, iso, manifest, isoTreeinfo, dest0, dest, written,
                   tmpdir, mounted, extra_files, variant, todo, exc>>

\* time.sleep(timeout), then the next round of range(5) or the loop's end
Sleep ==
    /\ pc = "sleep"
    /\ log' = Append(log, Ev("sleep", timeout, 0))
    /\ timeout' = timeout + 1
    /\ pc' = IF timeout + 1 < Retries THEN "umount" ELSE "rmdir"
    /\ UNCHANGED <<nargs, status, iso, manifest, isoTreeinfo, dest0, dest, written,
                   tmpdir, mounted, extra_files, variant, todo, exc>>

\* mutation: an error of os.rmdir is swallowed
RmdirSwallowsErrors ==
    /\ pc = "rmdir"
    /\ log' = Append(log, Ev("rmdir", 0, 0))
    /\ \E oserror \in BOOLEAN :
          /\ tmpdir' = IF mounted \/ oserror THEN tmpdir ELSE "removed"
          /\ IF exc THEN Exit(1) ELSE pc' = "tweak_baseos" /\ UNCHANGED status
    /\ UNCHANGED <<nargs, iso, manifest, isoTreeinfo, dest0, dest, written, mounted,
                   extra_files, variant, todo, exc, timeout>>

\* os.rmdir(mount_point): raises on a mount point still in use (and may
\* raise on any other error of the machine); an exception of the body is
\* re-raised after it.
Rmdir ==
    /\ pc = "rmdir"
    /\ log' = Append(log, Ev("rmdir", 0, 0))
    /\ \E oserror \in BOOLEAN :
          IF mounted \/ oserror
          THEN Exit(1) /\ UNCHANGED tmpdir
          ELSE /\ tmpdir' = "removed"
               /\ IF exc THEN Exit(1) ELSE pc' = "tweak_baseos" /\ UNCHANGED status
    /\ UNCHANGED <<nargs, iso, manifest, isoTreeinfo, dest0, dest, written, mounted,
                   extra_files, variant, todo, exc, timeout>>

\* ------------------------------------------------------------ after the with
\* the treeinfo file of a variant in the destination tree
TreeinfoFile(v) ==
    IF v \in DOMAIN written /\ written[v] # NoFile THEN written[v]
    ELSE IF \E n \in dest : n.p = VariantDir(v) \o <<"treeinfo">>
                             /\ n.k = "f" /\ n.o = <<".treeinfo">>
    THEN isoTreeinfo
    ELSE NoFile

TweakBaseos ==
    /\ pc = "tweak_baseos"
    /\ log' = Append(log, Ev("tweak_baseos", 0, 0))
    /\ LET r == tweak_baseos_treeinfo(TreeinfoFile("BaseOS"))
       IN  IF r.ok
           THEN /\ written' = [written EXCEPT !["BaseOS"] = r.file]
                /\ pc' = "tweak_appstream"
                /\ UNCHANGED status
           ELSE Exit(1) /\ UNCHANGED written
    /\ UNCHANGED <<nargs, iso, manifest, isoTreeinfo, dest0, dest, tmpdir, mounted,
                   extra_files, variant, todo, exc, timeout>>

TweakAppstream ==
    /\ pc = "tweak_appstream"
    /\ log' = Append(log, Ev("tweak_appstream", 0, 0))
    /\ LET r == tweak_appstream_treeinfo(TreeinfoFile("AppStream"))
       IN  IF r.ok
           THEN /\ written' = [written EXCEPT !["AppStream"] = r.file]
                /\ pc' = "chmod"
                /\ UNCHANGED status
           ELSE Exit(1) /\ UNCHANGED written
    /\ UNCHANGED <<nargs, iso, manifest, isoTreeinfo, dest0, dest, tmpdir, mounted,
                   extra_files, variant, todo, exc, timeout>>

\* run(["chmod", "u+w", "-R", destdir]); main returns after it
Chmod ==
    /\ pc = "chmod"
    /\ \E returncode \in ExitCodes :
          /\ log' = Append(log, Ev("chmod", 0, returncode))
          /\ IF run(returncode, FALSE) = "exit" THEN Exit(1) ELSE Exit(0)
    /\ UNCHANGED <<nargs, iso, manifest, isoTreeinfo, dest0, dest, written, tmpdir,
                   mounted, extra_files, variant, todo, exc, timeout>>

Next ==
    \/ ParseArgs
    \/ CheckDest
    \/ Mkdtemp
    \/ Mount
    \/ ReadManifest
    \/ CopyVariantTree
    \/ CopyVariantMeta
    \/ CopyVariantExtra
    \/ CopyBootFilesBegin
    \/ CopyBootFile
    \/ Umount
    \/ Sleep
    \/ Rmdir
    \/ TweakBaseos
    \/ TweakAppstream
    \/ Chmod

Spec == Init /\ [][Next]_vars

SpecTreeinfo == InitTreeinfo /\ [][Next]_vars

\* ------------------------------------------------------------ properties
BodyOps == {"manifest", "copytree", "copy", "sweep"}

TeardownOps == {"umount", "sleep", "rmdir"}

BodyPcs ==
    {"manifest", "variant_tree", "variant_meta", "variant_extra",
     "sweep_begin", "sweep"}

\* control has left the with statement (or the process has ended)
AfterWith == pc \in {"tweak_baseos", "tweak_appstream", "chmod", "done"}

MountSucceeded == \E i \in 1..Len(log) : log[i].op = "mount" /\ log[i].rc = 0

Success == pc = "done" /\ status = 0

RECURSIVE SleepUpTo(_)
SleepUpTo(i) ==
    IF i = 0 THEN 0
    ELSE SleepUpTo(i - 1) + (IF log[i].op = "sleep" THEN log[i].n ELSE 0)

SleepTotal == SleepUpTo(Len(log))

\* the number of umount attempts among the first i entries of the log
Attempts(i) == Cardinality({j \in 1..i : log[j].op = "umount"})

\* C1: when the argument count is not 2 or the destination exists, main
\* goes no further than its two checks, ends with a non-zero status, and
\* has had no effect: no temporary directory, no command run, nothing
\* copied or written, the destination as it was.
C1_ValidationBeforeEffects ==
    (nargs # 2 \/ Exists(dest0, <<>>)) =>
        /\ pc \in {"parse", "check_dest", "done"}
        /\ (nargs # 2 => pc # "check_dest")
        /\ (pc = "done" => status # 0)
        /\ log = <<>>
        /\ tmpdir = "none"
        /\ ~mounted
        /\ dest = dest0
        /\ \A v \in DOMAIN written : written[v] = NoFile

C1_Witness ==
    pc = "done" /\ status = 2 /\ nargs = 2 /\ Exists(dest0, <<"old">>)

\* C2: once the mount succeeded and the body was entered, control leaves
\* mount_iso only after a umount attempt followed by an rmdir attempt,
\* both after the last step of the body, whether the body ended normally
\* or raised.
C2_TeardownOnEveryExit ==
    (MountSucceeded /\ AfterWith) =>
        \E i, j \in 1..Len(log) :
            /\ i < j
            /\ log[i].op = "umount"
            /\ log[j].op = "rmdir"
            /\ \A b \in 1..Len(log) : log[b].op \in BodyOps => b < i

C2_Witness ==
    pc = "done" /\ exc /\ Did("sweep") /\ Did("umount") /\ Did("rmdir")

\* C3: at most 5 umount attempts; a successful attempt is followed by the
\* rmdir, never by a sleep; the k-th failed attempt is followed by a sleep
\* of k-1 seconds; the sleeps total at most 10 seconds; the rmdir is
\* attempted exactly once, after the loop; its failure ends the program
\* with a non-zero status.
C3_UnmountRetryLoop ==
    /\ Attempts(Len(log)) <= 5
    /\ SleepTotal <= 10
    /\ \A i \in 1..Len(log) :
          /\ (log[i].op = "umount" /\ log[i].rc = 0) =>
                IF i = Len(log) THEN pc = "rmdir" ELSE log[i + 1].op = "rmdir"
          /\ (log[i].op = "umount" /\ log[i].rc # 0) =>
                IF i = Len(log) THEN pc = "sleep"
                ELSE log[i + 1].op = "sleep" /\ log[i + 1].n = Attempts(i) - 1
          /\ log[i].op = "sleep" =>
                i > 1 /\ log[i - 1].op = "umount" /\ log[i - 1].rc # 0
          /\ log[i].op = "rmdir" =>
                \A j \in 1..Len(log) : log[j].op \in TeardownOps /\ j # i => j < i
    /\ Count("rmdir") <= 1
    /\ (Did("umount") /\ pc \notin {"umount", "sleep", "rmdir"}) => Count("rmdir") = 1
    /\ (Did("rmdir") /\ tmpdir = "exists") => pc = "done" /\ status # 0

C3_Witness ==
    /\ Count("umount") = 5
    /\ Count("sleep") = 5
    /\ SleepTotal = 10
    /\ Did("rmdir")
    /\ tmpdir = "exists"
    /\ pc = "done"

\* C3, second case: 4 failed attempts, then a successful one, no sleep after it
C3_FifthAttemptSucceeds ==
    /\ Count("umount") = 5
    /\ Count("sleep") = 4
    /\ Did("rmdir")
    /\ tmpdir = "removed"

BaseosDir == <<"baseos", "kickstart">>

AppstreamDir == <<"appstream", "kickstart">>

Contains(dir, name) == Exists(dest, dir \o <<name>>)

ManifestFiles == {manifest.files[i] : i \in 1..Len(manifest.files)}

\* the direct children of the mount root that are neither in the fixed
\* set nor in the list of extra files
LeftoverChildren ==
    {c \in ListDir(iso, <<>>) :
        /\ c \notin {"AppStream", "BaseOS", ".treeinfo", ".discinfo", "media.repo"}
        /\ c # "extra_files.json"
        /\ <<c>> \notin ManifestFiles}

BothVariantsHaveCommonFiles ==
    \A dir \in {BaseosDir, AppstreamDir} :
        /\ Contains(dir, "treeinfo")
        /\ Contains(dir, "discinfo")
        /\ Contains(dir, "extra_files.json")
        /\ \A f \in ManifestFiles : Contains(dir, Last(f))

MediaRepoNotSwept ==
    <<"media.repo">> \notin ManifestFiles =>
        \A n \in dest : n.o # <<"media.repo">>

\* what else the program puts into appstream/kickstart under a name
OtherwiseInAppstream(c) ==
    \/ c \in {"treeinfo", "discinfo"}
    \/ \E f \in ManifestFiles : Last(f) = c
    \/ c \in ListDir(iso, <<"AppStream">>) /\ c # "TRANS.TBL"

\* C4 as stated: after a successful run both variant directories hold
\* treeinfo, discinfo, extra_files.json and the manifest's files; every
\* leftover child of the mount root is under baseos/kickstart and absent
\* from appstream/kickstart; media.repo is copied to neither.
C4_AsStated ==
    Success =>
        /\ BothVariantsHaveCommonFiles
        /\ \A c \in LeftoverChildren :
              Contains(BaseosDir, c) /\ ~Contains(AppstreamDir, c)
        /\ MediaRepoNotSwept

\* C4, amended: as stated, except that a leftover child's name is absent
\* from appstream/kickstart only when nothing else the program copies
\* there has that name (treeinfo, discinfo, the base name of a manifest
\* entry, a direct child of the image's AppStream directory other than
\* TRANS.TBL); with such a name it is present there.
C4_Layout ==
    Success =>
        /\ BothVariantsHaveCommonFiles
        /\ \A c \in LeftoverChildren :
              /\ Contains(BaseosDir, c)
              /\ Contains(AppstreamDir, c) <=> OtherwiseInAppstream(c)
        /\ MediaRepoNotSwept

C4_Witness ==
    /\ Success
    /\ IsFile(iso, <<"media.repo">>)
    /\ <<"README">> \in ManifestFiles
    /\ IsFile(iso, <<"isolinux", "isolinux.cfg">>)
    /\ Exists(dest, BaseosDir \o <<"isolinux", "isolinux.cfg">>)
    /\ ~Contains(AppstreamDir, "isolinux")
    /\ "discinfo" \in LeftoverChildren

\* C5: after a run no path of the destination tree ends in TRANS.TBL.
C5_NoTransTbl ==
    Success => \A n \in dest : n.p = <<>> \/ Last(n.p) # "TRANS.TBL"

\* C8: a command that returns 0 lets its caller go on; a failed umount
\* (failure tolerated) lets the loop go on with nothing else changed; a
\* failed mount or chmod (failure fatal) ends the program there with a
\* non-zero status: no step of the body after a failed mount, no exit 0
\* after a failed chmod.
C8_RunContract ==
    \A i \in 1..Len(log) :
        /\ (log[i].op = "mount" /\ log[i].rc = 0 /\ i = Len(log)) =>
              pc = "manifest" /\ status = 0
        /\ (log[i].op = "mount" /\ log[i].rc # 0) =>
              /\ i = Len(log)
              /\ pc = "done"
              /\ status # 0
              /\ dest = dest0
        /\ (log[i].op = "umount" /\ log[i].rc = 0 /\ i = Len(log)) =>
              pc = "rmdir" /\ status = 0
        /\ (log[i].op = "umount" /\ log[i].rc # 0 /\ i = Len(log)) =>
              pc = "sleep" /\ status = 0 /\ tmpdir = "exists"
        /\ (log[i].op = "chmod" /\ log[i].rc = 0) =>
              i = Len(log) /\ pc = "done" /\ status = 0
        /\ (log[i].op = "chmod" /\ log[i].rc # 0) =>
              i = Len(log) /\ pc = "done" /\ status # 0

C8_Witness ==
    /\ pc = "done"
    /\ status = 1
    /\ \E i \in 1..Len(log) : log[i].op = "chmod" /\ log[i].rc # 0

\* C9: whenever the program has ended after creating the temporary
\* directory, it has attempted to remove it.
C9_TmpdirRemovalAttempted ==
    (pc = "done" /\ Did("mkdtemp")) => Did("rmdir")

\* C10: the body's steps run with the image mounted, after a successful
\* mount and before any step of the teardown; tweak_baseos_treeinfo runs
\* only after the rmdir succeeded with no exception pending;
\* tweak_appstream_treeinfo right after a tweak_baseos_treeinfo that
\* wrote its file; chmod last, after both files were written.
C10_Ordering ==
    /\ pc \in BodyPcs => mounted /\ tmpdir = "exists"
    /\ \A i \in 1..Len(log) :
          /\ log[i].op \in BodyOps =>
                /\ \E m \in 1..(i - 1) : log[m].op = "mount" /\ log[m].rc = 0
                /\ \A t \in 1..(i - 1) : log[t].op \notin TeardownOps
          /\ log[i].op = "tweak_baseos" =>
                /\ tmpdir = "removed"
                /\ ~exc
                /\ i > 1 /\ log[i - 1].op = "rmdir"
          /\ log[i].op = "tweak_appstream" =>
                /\ i > 1 /\ log[i - 1].op = "tweak_baseos"
                /\ written["BaseOS"] # NoFile
          /\ log[i].op = "chmod" =>
                /\ i = Len(log)
                /\ i > 1 /\ log[i - 1].op = "tweak_appstream"
                /\ written["BaseOS"] # NoFile
                /\ written["AppStream"] # NoFile

C10_Witness ==
    Success /\ Did("sweep") /\ Did("chmod") /\ Count("sleep") > 0

\* the options tweak_baseos_treeinfo sets in a section
BaseosSets(s) ==
    CASE s = "general" -> {"variants", "variant", "repository", "packagedir"}
      [] s = "tree" -> {"variants"}
      [] s = "variant-BaseOS" -> {"packages", "repository"}
      [] OTHER -> {}

\* C6: a BaseOS treeinfo written from a document with the general, tree
\* and variant-BaseOS sections has no variant-AppStream and no media
\* section, has the seven options set as listed, and has every other
\* section and option exactly as the input had them.
C6_BaseosTreeinfo ==
    LET in == isoTreeinfo
        out == written["BaseOS"]
    IN  (out # NoFile /\ {"general", "tree", "variant-BaseOS"} \subseteq DOMAIN in) =>
            /\ DOMAIN out = DOMAIN in \ {"variant-AppStream", "media"}
            /\ out["general"]["variants"] = "BaseOS"
            /\ out["general"]["variant"] = "BaseOS"
            /\ out["tree"]["variants"] = "BaseOS"
            /\ out["general"]["repository"] = "."
            /\ out["variant-BaseOS"]["repository"] = "."
            /\ out["general"]["packagedir"] = "Packages"
            /\ out["variant-BaseOS"]["packages"] = "Packages"
            /\ \A s \in DOMAIN out :
                  /\ DOMAIN out[s] = DOMAIN in[s] \cup BaseosSets(s)
                  /\ \A k \in DOMAIN in[s] \ BaseosSets(s) : out[s][k] = in[s][k]

\* C7: an AppStream treeinfo that was written has none of the sections
\* variant-BaseOS, checksums, stage2, media, images-<platform>, and its
\* general.platforms and tree.platforms are the input's general.arch.
C7_AppstreamTreeinfo ==
    LET in == isoTreeinfo
        out == written["AppStream"]
    IN  out # NoFile =>
            /\ DOMAIN out \cap {"variant-BaseOS", "checksums", "stage2", "media"} = {}
            /\ \A i \in 1..Len(ImagePlatforms) :
                  ("images-" \o ImagePlatforms[i]) \notin DOMAIN out
            /\ "general" \in DOMAIN in /\ "arch" \in DOMAIN in["general"]
            /\ out["general"]["platforms"] = in["general"]["arch"]
            /\ out["tree"]["platforms"] = in["general"]["arch"]

C7_Witness ==
    /\ written["AppStream"] # NoFile
    /\ {"variant-BaseOS", "checksums", "stage2", "media"} \subseteq DOMAIN isoTreeinfo
    /\ Cardinality({i \in 1..Len(ImagePlatforms) :
                       ("images-" \o ImagePlatforms[i]) \in DOMAIN isoTreeinfo}) >= 2
    /\ isoTreeinfo["general"]["platforms"] # isoTreeinfo["general"]["arch"]

====
